---- MODULE Spec2Model ----
(***************************************************************************)
(* Model of Preprocessing/automate_Irfan_Ziyadi_R.py: main() runs          *)
(* load_data, preprocess_data and save_processed in sequence.  The state   *)
(* holds the input file, the local variables of preprocess_data, the       *)
(* logging and stdout streams, the output file, and the position (pc) of   *)
(* the run.  Strings are TLA+ strings; Ord gives their code points, which  *)
(* is what Python's sorted() compares.  Numbers are exact rationals        *)
(* [n, d]; NaN is the rational with d = 0.                                 *)
(***************************************************************************)
EXTENDS Integers, Sequences, FiniteSets, TLC

VARIABLES csv, pc, df, X, y, y_encoded, classes_, label_mapping,
          X_numeric, X_scaled, df_processed, log, out, raised, escaped,
          outdir, file

vars == <<csv, pc, df, X, y, y_encoded, classes_, label_mapping,
          X_numeric, X_scaled, df_processed, log, out, raised, escaped,
          outdir, file>>

\* Bounds of the input space: rows per table, cells (rows x columns) per table.
MaxRows == 3
MaxCells == 9

-----------------------------------------------------------------------------
(* Strings and their ordering *)

Ord ==
    "date"    :> <<100, 97, 116, 101>> @@
    "weather" :> <<119, 101, 97, 116, 104, 101, 114>> @@
    "wind"    :> <<119, 105, 110, 100>> @@
    "temp"    :> <<116, 101, 109, 112>> @@
    "rain"    :> <<114, 97, 105, 110>> @@
    "sun"     :> <<115, 117, 110>> @@
    "01"      :> <<48, 49>> @@
    "02"      :> <<48, 50>> @@
    ""        :> <<>> @@
    "1"       :> <<49>> @@
    "2"       :> <<50>> @@
    "3"       :> <<51>> @@
    "x"       :> <<120>>

Range(s) == {s[i] : i \in DOMAIN s}

MinOf(a, b) == IF a <= b THEN a ELSE b

\* Python's str <: lexicographic on code points, a proper prefix is smaller.
StrLess(a, b) ==
    LET u == Ord[a]
        v == Ord[b]
    IN \E k \in 1..(MinOf(Len(u), Len(v)) + 1) :
          /\ \A j \in 1..(k - 1) : u[j] = v[j]
          /\ \/ k > Len(u) /\ k <= Len(v)
             \/ k <= Len(u) /\ k <= Len(v) /\ u[k] < v[k]

\* Mutant of sorted: list(S) in an order that is not the sorted one
RECURSIVE list_unsorted(_)
list_unsorted(S) ==
    IF S = {} THEN <<>>
    ELSE LET m == CHOOSE a \in S : \A b \in S \ {a} : StrLess(b, a)
         IN <<m>> \o list_unsorted(S \ {m})

\* sorted(S) for a finite set of strings
RECURSIVE sorted(_)
sorted(S) ==
    IF S = {} THEN <<>>
    ELSE LET m == CHOOSE a \in S : \A b \in S \ {a} : StrLess(a, b)
         IN <<m>> \o sorted(S \ {m})

-----------------------------------------------------------------------------
(* Rational arithmetic; NaN is [n |-> 0, d |-> 0] *)

NaN == [n |-> 0, d |-> 0]

isna(v) == v.d = 0

Abs(a) == IF a < 0 THEN -a ELSE a

RECURSIVE GCD(_, _)
GCD(a, b) == IF b = 0 THEN a ELSE GCD(b, a % b)

Rat(n, d) ==
    LET g == GCD(Abs(n), Abs(d))
        s == IF d < 0 THEN -1 ELSE 1
    IN [n |-> s * (n \div g), d |-> s * (d \div g)]

RatInt(k) == [n |-> k, d |-> 1]

RatAdd(a, b) == Rat(a.n * b.d + b.n * a.d, a.d * b.d)

RatSub(a, b) == Rat(a.n * b.d - b.n * a.d, a.d * b.d)

RatMul(a, b) == Rat(a.n * b.n, a.d * b.d)

RatDivInt(a, k) == Rat(a.n, a.d * k)

RECURSIVE RatSum(_)
RatSum(s) == IF s = <<>> THEN RatInt(0) ELSE RatAdd(Head(s), RatSum(Tail(s)))

-----------------------------------------------------------------------------
(* The input file: absent, unreadable as CSV, or a header and data rows.   *)
(* A cell is the text between two commas; "" is an empty cell, which       *)
(* read_csv loads as a missing value.                                      *)

ColumnOrder == <<"wind", "weather", "date", "temp">>

CellValues(c) ==
    IF c = "weather" THEN {"rain", "sun"}
    ELSE IF c = "date" THEN {"01", "02"}
    ELSE IF c = "wind" THEN {"", "1", "3", "x"}
    ELSE {"2", "x"}

AllCells == UNION {CellValues(c) : c \in Range(ColumnOrder)}

Pick(S) ==
    LET idx == SelectSeq([i \in 1..Len(ColumnOrder) |-> i], LAMBDA i : i \in S)
    IN [k \in 1..Len(idx) |-> ColumnOrder[idx[k]]]

Layouts == {Pick(S) : S \in (SUBSET (1..Len(ColumnOrder))) \ {{}}}

RowsOf(cols) ==
    {r \in [Range(cols) -> AllCells] : \A c \in Range(cols) : r[c] \in CellValues(c)}

RowCounts(cols) == {k \in 0..MaxRows : k * Len(cols) <= MaxCells}

Tables ==
    UNION {{[kind |-> "table", columns |-> cols, rows |-> rs] :
                rs \in UNION {[1..k -> RowsOf(cols)] : k \in RowCounts(cols)}} :
           cols \in Layouts}

InputFiles == {[kind |-> "missing"], [kind |-> "malformed"]} \cup Tables

-----------------------------------------------------------------------------
(* pandas / sklearn operations used by the script.  A DataFrame is         *)
(* [columns, index, data]: column labels, row labels, and one record per   *)
(* row.                                                                    *)

\* Python's None, for a variable not assigned yet and for an absent file
None == [none |-> TRUE]

RangeIndex(k) == [i \in 1..k |-> i - 1]

EmptyFrame == [columns |-> <<>>, index |-> <<>>, data |-> <<>>]

read_csv(f) ==
    [columns |-> f.columns, index |-> RangeIndex(Len(f.rows)), data |-> f.rows]

\* s restricted to the positions i with keep[i], order kept
RECURSIVE Compress(_, _)
Compress(s, keep) ==
    IF s = <<>> THEN <<>>
    ELSE (IF Head(keep) THEN <<Head(s)>> ELSE <<>>) \o Compress(Tail(s), Tail(keep))

\* Mutant of duplicated: keep="last"
duplicated_keep_last(d) ==
    [i \in 1..Len(d.data) |-> \E j \in (i + 1)..Len(d.data) : d.data[j] = d.data[i]]

\* DataFrame.duplicated(keep="first"): a row is marked when an earlier row
\* has the same value in every column
duplicated(d) ==
    [i \in 1..Len(d.data) |-> \E j \in 1..(i - 1) : d.data[j] = d.data[i]]

\* Mutant of drop_duplicates: the result of df.drop_duplicates() is not kept
drop_duplicates_discarded(d) == d

drop_duplicates(d) ==
    LET keep == [i \in 1..Len(d.data) |-> ~duplicated(d)[i]]
    IN [columns |-> d.columns,
        index   |-> Compress(d.index, keep),
        data    |-> Compress(d.data, keep)]

\* DataFrame.drop(columns=names)
drop(d, names) ==
    LET cols == SelectSeq(d.columns, LAMBDA c : c \notin names)
    IN [columns |-> cols,
        index   |-> d.index,
        data    |-> [i \in 1..Len(d.data) |-> [c \in Range(cols) |-> d.data[i][c]]]]

\* DataFrame.empty: any axis of length 0
empty(d) == Len(d.columns) = 0 \/ Len(d.index) = 0

Column(d, c) == [i \in 1..Len(d.data) |-> d.data[i][c]]

\* Mutant of fit: the distinct values in order of first appearance
fit_first_seen(v) ==
    Compress(v, [i \in 1..Len(v) |-> ~ \E j \in 1..(i - 1) : v[j] = v[i]])

\* LabelEncoder.fit: classes_ = the sorted distinct values
fit(v) == sorted(Range(v))

\* LabelEncoder.transform of one value of an object column: its 0-based
\* position in classes_
transform(classes, v) == (CHOOSE k \in 1..Len(classes) : classes[k] = v) - 1

RECURSIVE DigitsValue(_)
DigitsValue(u) ==
    IF u = <<>> THEN 0
    ELSE 10 * DigitsValue(SubSeq(u, 1, Len(u) - 1)) + (u[Len(u)] - 48)

\* pd.to_numeric(errors="coerce") of one cell: a decimal numeral parses,
\* anything else (an empty cell included) becomes NaN
to_numeric(s) ==
    LET u == Ord[s]
    IN IF u # <<>> /\ \A i \in 1..Len(u) : u[i] \in 48..57
       THEN RatInt(DigitsValue(u))
       ELSE NaN

apply_to_numeric(d) ==
    [columns |-> d.columns,
     index   |-> d.index,
     data    |-> [i \in 1..Len(d.data) |->
                    [c \in Range(d.columns) |-> to_numeric(d.data[i][c])]]]

\* Series.isna().all()
all_na(d, c) == \A i \in 1..Len(d.data) : isna(d.data[i][c])

\* Mutant of mean: NaN cells counted in the denominator
mean_count_all(v) ==
    LET nn == SelectSeq(v, LAMBDA a : ~isna(a))
    IN IF nn = <<>> THEN NaN ELSE RatDivInt(RatSum(nn), Len(v))

\* Series.mean(): NaN skipped; NaN when nothing is left
mean(v) ==
    LET nn == SelectSeq(v, LAMBDA a : ~isna(a))
    IN IF nn = <<>> THEN NaN ELSE RatDivInt(RatSum(nn), Len(nn))

\* DataFrame.fillna(DataFrame.mean())
fillna_mean(d) ==
    [columns |-> d.columns,
     index   |-> d.index,
     data    |-> [i \in 1..Len(d.data) |->
                    [c \in Range(d.columns) |->
                        IF isna(d.data[i][c]) THEN mean(Column(d, c))
                        ELSE d.data[i][c]]]]

\* StandardScaler.fit_transform of one column: (x - mean_) / scale_, where
\* scale_ = sqrt(var_), var_ the population variance, and a zero scale_ is
\* replaced by 1.  The quotient is kept exact as [dev, scale2], standing for
\* dev / sqrt(scale2).
scale_column(v) ==
    LET k    == Len(v)
        mu   == RatDivInt(RatSum(v), k)
        sq   == [i \in 1..k |-> RatMul(RatSub(v[i], mu), RatSub(v[i], mu))]
        var  == RatDivInt(RatSum(sq), k)
        sc2  == IF var = RatInt(0) THEN RatInt(1) ELSE var
    IN [i \in 1..k |-> [dev |-> RatSub(v[i], mu), scale2 |-> sc2]]

\* pd.DataFrame(scaler.fit_transform(d), columns=d.columns): a new RangeIndex
fit_transform_frame(d) ==
    [columns |-> d.columns,
     index   |-> RangeIndex(Len(d.data)),
     data    |-> [i \in 1..Len(d.data) |->
                    [c \in Range(d.columns) |-> scale_column(Column(d, c))[i]]]]

\* Mutant of assign_last: the values are aligned on the row labels of the
\* de-duplicated frame instead of being assigned by position
assign_aligned(d, c, arr) ==
    [columns |-> Append(d.columns, c),
     index   |-> d.index,
     data    |-> [i \in 1..Len(d.data) |->
                    [k \in Range(d.columns) \cup {c} |->
                        IF k # c THEN d.data[i][k]
                        ELSE IF \E j \in 1..Len(df.index) : df.index[j] = d.index[i]
                             THEN arr[CHOOSE j \in 1..Len(df.index) : df.index[j] = d.index[i]]
                             ELSE -1]]]

\* frame["weather"] = array: a new last column, assigned by position
assign_last(d, c, arr) ==
    [columns |-> Append(d.columns, c),
     index   |-> d.index,
     data    |-> [i \in 1..Len(d.data) |->
                    [k \in Range(d.columns) \cup {c} |->
                        IF k = c THEN arr[i] ELSE d.data[i][k]]]]

\* pd.DataFrame({"weather": arr})
frame_of(c, arr) ==
    [columns |-> <<c>>,
     index   |-> RangeIndex(Len(arr)),
     data    |-> [i \in 1..Len(arr) |-> [k \in {c} |-> arr[i]]]]

\* DataFrame.to_csv(index=False): the header line, then one line per row
to_csv_lines(d) ==
    <<d.columns>> \o
    [i \in 1..Len(d.data) |-> [k \in 1..Len(d.columns) |-> d.data[i][d.columns[k]]]]

-----------------------------------------------------------------------------
(* The run *)

NoExc == [stage |-> "", type |-> "None", msg |-> "", arg |-> <<>>]

Init ==
    /\ csv \in InputFiles
    /\ pc = "load"
    /\ df = None
    /\ X = None
    /\ y = None
    /\ y_encoded = None
    /\ classes_ = None
    /\ label_mapping = None
    /\ X_numeric = None
    /\ X_scaled = None
    /\ df_processed = None
    /\ log = <<>>
    /\ out = <<>>
    /\ raised = NoExc
    /\ escaped = FALSE
    /\ outdir = FALSE
    /\ file = None

locals == <<df, X, y, y_encoded, classes_, label_mapping, X_numeric, X_scaled,
            df_processed>>

\* An exception e leaves a stage and reaches the except clause of main that
\* guards the stage: one line is printed and main returns.
Caught(prefix, e) ==
    /\ raised' = e
    /\ out' = Append(out, [text |-> prefix, arg |-> e])
    /\ pc' = "done"
    /\ UNCHANGED escaped

\* load_data: the path does not exist; main's except FileNotFoundError
LoadNotFound ==
    /\ pc = "load"
    /\ csv.kind = "missing"
    /\ Caught("Error: ", [stage |-> "load", type |-> "FileNotFoundError",
                          msg |-> "File dataset tidak ditemukan: ", arg |-> <<>>])
    /\ UNCHANGED <<csv, locals, log, outdir, file>>

\* load_data: pd.read_csv raises on the content of the file; the except
\* clause around load_data names FileNotFoundError only, so main is left by
\* the exception
LoadParseError ==
    /\ pc = "load"
    /\ csv.kind = "malformed"
    /\ raised' = [stage |-> "load", type |-> "ParserError", msg |-> "", arg |-> <<>>]
    /\ escaped' = TRUE
    /\ pc' = "crashed"
    /\ UNCHANGED <<csv, locals, log, out, outdir, file>>

LoadOk ==
    /\ pc = "load"
    /\ csv.kind = "table"
    /\ df' = read_csv(csv)
    /\ pc' = "drop_duplicates"
    /\ UNCHANGED <<csv, X, y, y_encoded, classes_, label_mapping, X_numeric,
                   X_scaled, df_processed, log, out, raised, escaped, outdir, file>>

DropDuplicates ==
    /\ pc = "drop_duplicates"
    /\ df' = drop_duplicates(df)
    /\ pc' = "required"
    /\ UNCHANGED <<csv, X, y, y_encoded, classes_, label_mapping, X_numeric,
                   X_scaled, df_processed, log, out, raised, escaped, outdir, file>>

required_cols == {"weather", "date"}

missing_cols(d) == required_cols \ Range(d.columns)

CheckRequired ==
    /\ pc = "required"
    /\ IF missing_cols(df) # {}
       THEN Caught("Preprocessing gagal: ",
                   [stage |-> "preprocess", type |-> "ValueError",
                    msg |-> "Dataset tidak memiliki kolom yang diperlukan: ",
                    arg |-> sorted(missing_cols(df))])
       ELSE pc' = "select" /\ UNCHANGED <<out, raised, escaped>>
    /\ UNCHANGED <<csv, locals, log, outdir, file>>

select_features(d) ==
    IF Len(d.columns) > 2 THEN drop(d, {"weather", "date"}) ELSE EmptyFrame

SelectFeatures ==
    /\ pc = "select"
    /\ X' = select_features(df)
    /\ y' = Column(df, "weather")
    /\ pc' = "encode"
    /\ UNCHANGED <<csv, df, y_encoded, classes_, label_mapping, X_numeric,
                   X_scaled, df_processed, log, out, raised, escaped, outdir, file>>

EncodeTarget ==
    /\ pc = "encode"
    /\ classes_' = fit(y)
    /\ y_encoded' = [i \in 1..Len(y) |-> transform(fit(y), y[i])]
    /\ label_mapping' = [c \in Range(fit(y)) |-> transform(fit(y), c)]
    /\ pc' = "empty"
    /\ UNCHANGED <<csv, df, X, y, X_numeric, X_scaled, df_processed, log, out,
                   raised, escaped, outdir, file>>

CheckEmpty ==
    /\ pc = "empty"
    /\ IF empty(X)
       THEN /\ log' = Append(log, [level |-> "WARNING", msg |-> "Tidak ada fitur numerik"])
            /\ df_processed' = frame_of("weather", y_encoded)
            /\ pc' = "makedirs"
       ELSE /\ pc' = "to_numeric"
            /\ UNCHANGED <<log, df_processed>>
    /\ UNCHANGED <<csv, df, X, y, y_encoded, classes_, label_mapping, X_numeric,
                   X_scaled, out, raised, escaped, outdir, file>>

ToNumeric ==
    /\ pc = "to_numeric"
    /\ X_numeric' = apply_to_numeric(X)
    /\ pc' = "all_na"
    /\ UNCHANGED <<csv, df, X, y, y_encoded, classes_, label_mapping,
                   X_scaled, df_processed, log, out, raised, escaped, outdir, file>>

all_na_cols(d) == SelectSeq(d.columns, LAMBDA c : all_na(d, c))

DropAllNa ==
    /\ pc = "all_na"
    /\ IF all_na_cols(X_numeric) # <<>>
       THEN /\ log' = Append(log, [level |-> "WARNING",
                                   msg |-> "Menghapus kolom non-numerik",
                                   arg |-> all_na_cols(X_numeric)])
            /\ X_numeric' = drop(X_numeric, Range(all_na_cols(X_numeric)))
       ELSE UNCHANGED <<log, X_numeric>>
    /\ pc' = "remaining"
    /\ UNCHANGED <<csv, df, X, y, y_encoded, classes_, label_mapping,
                   X_scaled, df_processed, out, raised, escaped, outdir, file>>

CheckRemaining ==
    /\ pc = "remaining"
    /\ IF Len(X_numeric.columns) = 0
       THEN Caught("Preprocessing gagal: ",
                   [stage |-> "preprocess", type |-> "ValueError",
                    msg |-> "Tidak ada kolom numerik yang tersisa untuk distandarisasi.",
                    arg |-> <<>>])
       ELSE pc' = "fillna" /\ UNCHANGED <<out, raised, escaped>>
    /\ UNCHANGED <<csv, locals, log, outdir, file>>

FillNa ==
    /\ pc = "fillna"
    /\ X_numeric' = fillna_mean(X_numeric)
    /\ pc' = "scale"
    /\ UNCHANGED <<csv, df, X, y, y_encoded, classes_, label_mapping,
                   X_scaled, df_processed, log, out, raised, escaped, outdir, file>>

Scale ==
    /\ pc = "scale"
    /\ X_scaled' = fit_transform_frame(X_numeric)
    /\ pc' = "assemble"
    /\ UNCHANGED <<csv, df, X, y, y_encoded, classes_, label_mapping,
                   X_numeric, df_processed, log, out, raised, escaped, outdir, file>>

\* df_processed = X_scaled.copy(); df_processed["weather"] = y_encoded; return
Assemble ==
    /\ pc = "assemble"
    /\ IF Len(y_encoded) # Len(X_scaled.index)
       THEN /\ Caught("Preprocessing gagal: ",
                      [stage |-> "preprocess", type |-> "ValueError",
                       msg |-> "Length of values does not match length of index",
                       arg |-> <<>>])
            /\ UNCHANGED df_processed
       ELSE /\ df_processed' = assign_last(X_scaled, "weather", y_encoded)
            /\ pc' = "makedirs"
            /\ UNCHANGED <<out, raised, escaped>>
    /\ UNCHANGED <<csv, df, X, y, y_encoded, classes_, label_mapping,
                   X_numeric, X_scaled, log, outdir, file>>

\* save_processed.  Each step of it can fail in the operating system; main
\* catches Exception around the call.
SaveError(at) == [stage |-> "save", type |-> "OSError", msg |-> at, arg |-> <<>>]

Makedirs ==
    /\ pc = "makedirs"
    /\ \/ /\ outdir' = TRUE
          /\ pc' = "to_csv_open"
          /\ UNCHANGED <<out, raised, escaped>>
       \/ /\ Caught("Gagal menyimpan file: ", SaveError("makedirs"))
          /\ UNCHANGED outdir
    /\ UNCHANGED <<csv, locals, log, file>>

\* to_csv opens the output path for writing: the file exists and is empty
ToCsvOpen ==
    /\ pc = "to_csv_open"
    /\ \/ /\ file' = <<>>
          /\ pc' = "to_csv_write"
          /\ UNCHANGED <<out, raised, escaped>>
       \/ /\ Caught("Gagal menyimpan file: ", SaveError("open"))
          /\ UNCHANGED file
    /\ UNCHANGED <<csv, locals, log, outdir>>

\* to_csv writes the next line into the open file, or the write fails and
\* what was written before stays in the file
ToCsvWrite ==
    /\ pc = "to_csv_write"
    /\ Len(file) < Len(to_csv_lines(df_processed))
    /\ \/ /\ file' = Append(file, to_csv_lines(df_processed)[Len(file) + 1])
          /\ UNCHANGED <<pc, out, raised, escaped>>
       \/ /\ Caught("Gagal menyimpan file: ", SaveError("write"))
          /\ UNCHANGED file
    /\ UNCHANGED <<csv, locals, log, outdir>>

\* to_csv returns; save_processed returns the path
ToCsvClose ==
    /\ pc = "to_csv_write"
    /\ Len(file) = Len(to_csv_lines(df_processed))
    /\ pc' = "report"
    /\ UNCHANGED <<csv, locals, log, out, raised, escaped, outdir, file>>

head(d) == SubSeq(d.data, 1, MinOf(5, Len(d.data)))

Report ==
    /\ pc = "report"
    /\ out' = out \o
              << [text |-> "Preprocessing selesai"],
                 [text |-> "Input      : "],
                 [text |-> "Output file: ", arg |-> "seattle_weather_processed.csv"],
                 [text |-> "Label mapping (weather -> encoded):"] >> \o
              [k \in 1..Len(classes_) |->
                  [text |-> "  - ", arg |-> <<classes_[k], label_mapping[classes_[k]]>>]] \o
              << [text |-> "Preview output:"],
                 [text |-> "head", arg |-> head(df_processed)] >>
    /\ pc' = "done"
    /\ UNCHANGED <<csv, locals, log, raised, escaped, outdir, file>>

Next ==
    \/ LoadNotFound
    \/ LoadParseError
    \/ LoadOk
    \/ DropDuplicates
    \/ CheckRequired
    \/ SelectFeatures
    \/ EncodeTarget
    \/ CheckEmpty
    \/ ToNumeric
    \/ DropAllNa
    \/ CheckRemaining
    \/ FillNa
    \/ Scale
    \/ Assemble
    \/ Makedirs
    \/ ToCsvOpen
    \/ ToCsvWrite
    \/ ToCsvClose
    \/ Report

Spec == Init /\ [][Next]_vars

-----------------------------------------------------------------------------
(* Properties.  They are stated over the input file (csv) and the visible  *)
(* results, with their own reading of the input: which cells are numerals, *)
(* which rows are first occurrences.                                       *)

Numeral == "1" :> 1 @@ "2" :> 2 @@ "3" :> 3

IsNumeral(s) == s \in DOMAIN Numeral

HasTable == csv.kind = "table"

HasRequired == HasTable /\ {"weather", "date"} \subseteq Range(csv.columns)

FeatureCols == SelectSeq(csv.columns, LAMBDA c : c \notin {"weather", "date"})

\* positions of the rows of the input that repeat no earlier row
FirstPos == {p \in 1..Len(csv.rows) : \A q \in 1..(p - 1) : csv.rows[q] # csv.rows[p]}

\* the i-th surviving row of the input
Survivor(i) ==
    csv.rows[CHOOSE p \in FirstPos : Cardinality({q \in FirstPos : q < p}) = i - 1]

\* preprocess_data is over: it returned or raised
AfterPreprocess == pc \in {"makedirs", "to_csv_open", "to_csv_write", "report", "done"}

Returned == df_processed # None

SchemaError ==
    /\ raised.stage = "preprocess"
    /\ raised.type = "ValueError"
    /\ raised.msg = "Dataset tidak memiliki kolom yang diperlukan: "

NoUsableFeatures ==
    /\ raised.stage = "preprocess"
    /\ raised.type = "ValueError"
    /\ raised.msg = "Tidak ada kolom numerik yang tersisa untuk distandarisasi."

NoFeaturesWarned == \E k \in 1..Len(log) : log[k].msg = "Tidak ada fitur numerik"

\* C1: a table lacking 'weather', 'date' or both makes preprocess_data fail
\* with the schema error naming exactly the absent columns in alphabetical
\* order, and nothing is returned; with both present the error is not raised.
C1_SchemaError ==
    (HasTable /\ pc \notin {"load", "drop_duplicates", "required"}) =>
        LET noDate    == \A k \in 1..Len(csv.columns) : csv.columns[k] # "date"
            noWeather == \A k \in 1..Len(csv.columns) : csv.columns[k] # "weather"
        IN IF noDate \/ noWeather
           THEN /\ SchemaError
                /\ raised.arg = (IF noDate THEN <<"date">> ELSE <<>>) \o
                                (IF noWeather THEN <<"weather">> ELSE <<>>)
                /\ pc = "done"
                /\ ~escaped
                /\ df_processed = None
                /\ label_mapping = None
           ELSE ~SchemaError

C1_Witness ==
    /\ HasTable
    /\ pc = "done"
    /\ Range(csv.columns) = {"wind", "temp"}
    /\ Len(csv.rows) = 2
    /\ raised.arg = <<"date", "weather">>

\* C2: the label mapping has one entry per distinct target value, its codes
\* are exactly 0..K-1 without repetition, the code of a category is its rank
\* in sorted order, and decoding then re-encoding is the identity.
C2_LabelBijection ==
    label_mapping # None =>
        LET cats == {csv.rows[i]["weather"] : i \in 1..Len(csv.rows)}
            K    == Cardinality(cats)
        IN /\ DOMAIN label_mapping = cats
           /\ {label_mapping[c] : c \in cats} = 0..(K - 1)
           /\ \A a, b \in cats : a # b => label_mapping[a] # label_mapping[b]
           /\ \A a, b \in cats : StrLess(a, b) => label_mapping[a] < label_mapping[b]
           /\ ("rain" \in cats /\ "sun" \in cats) =>
                  label_mapping["rain"] = 0 /\ label_mapping["sun"] = 1
           /\ Len(classes_) = K
           /\ \A k \in 0..(K - 1) : label_mapping[classes_[k + 1]] = k
           /\ \A c \in cats : classes_[label_mapping[c] + 1] = c

C2_Witness ==
    /\ label_mapping # None
    /\ Len(csv.rows) = 3
    /\ csv.rows[1]["weather"] = "sun"
    /\ csv.rows[2]["weather"] = "rain"
    /\ label_mapping["rain"] = 0
    /\ label_mapping["sun"] = 1

\* C3 (as claimed): when no feature column has a cell that parses as a
\* number, preprocess_data logs the dropped columns, all of them in order of
\* appearance, then fails with NoUsableFeatures and returns no table.
C3_AllNonNumericRejected ==
    ( /\ HasRequired
      /\ FeatureCols # <<>>
      /\ \A k \in 1..Len(FeatureCols) : \A i \in 1..Len(csv.rows) :
            ~IsNumeral(csv.rows[i][FeatureCols[k]])
      /\ AfterPreprocess )
    => /\ log = <<[level |-> "WARNING", msg |-> "Menghapus kolom non-numerik",
                   arg |-> FeatureCols]>>
       /\ NoUsableFeatures
       /\ ~Returned

\* C4 (as claimed): a failure of any stage, whatever its kind, is caught in
\* main: one line is printed, no later stage runs, no exception leaves main.
C4_AllFailuresCaught ==
    raised # NoExc =>
        /\ ~escaped
        /\ pc = "done"
        /\ Len(out) = 1
        /\ raised.stage = "load" => df = None
        /\ raised.stage \in {"load", "preprocess"} => (~outdir /\ file = None)

\* C5 (as claimed): when the run has ended, either the writer succeeded and
\* the output file holds the whole processed table, or it failed and there
\* is no output file.
C5_AllOrNothing ==
    (pc = "done" /\ Returned) =>
        IF raised.stage = "save"
        THEN file = None
        ELSE file = to_csv_lines(df_processed)

\* C6: in the non-degenerate branch the processed table has the feature
\* columns with at least one numeral, in their original order, then
\* 'weather'; one row per surviving input row, in order; and the 'weather'
\* value of row i is the code of the target of the i-th surviving row.
C6_Assembly ==
    (Returned /\ X_scaled # None) =>
        /\ df_processed.columns =
              SelectSeq(FeatureCols,
                        LAMBDA c : \E i \in 1..Len(csv.rows) : IsNumeral(csv.rows[i][c]))
              \o <<"weather">>
        /\ Len(df_processed.columns) >= 2
        /\ Len(df_processed.data) = Cardinality(FirstPos)
        /\ \A i \in 1..Len(df_processed.data) :
              /\ DOMAIN df_processed.data[i] = Range(df_processed.columns)
              /\ df_processed.data[i]["weather"] = label_mapping[Survivor(i)["weather"]]

C6_Witness ==
    /\ Returned
    /\ X_scaled # None
    /\ csv.columns = ColumnOrder
    /\ df_processed.columns = <<"temp", "weather">>
    /\ Len(df_processed.data) = 2
    /\ df_processed.data[1]["weather"] = 1
    /\ df_processed.data[2]["weather"] = 0

\* C7: a table with only 'weather' and 'date' makes preprocess_data succeed,
\* log the 'no numeric features' warning and return a table with the single
\* column 'weather', one row per surviving input row, holding the label codes
\* in that order.
C7_DegeneratePassThrough ==
    (HasTable /\ Len(csv.columns) = 2 /\ Range(csv.columns) = {"weather", "date"}
        /\ AfterPreprocess)
    => /\ raised.stage # "preprocess"
       /\ Returned
       /\ log = <<[level |-> "WARNING", msg |-> "Tidak ada fitur numerik"]>>
       /\ df_processed.columns = <<"weather">>
       /\ Len(df_processed.data) = Cardinality(FirstPos)
       /\ \A i \in 1..Len(df_processed.data) :
             /\ DOMAIN df_processed.data[i] = {"weather"}
             /\ df_processed.data[i]["weather"] = label_mapping[Survivor(i)["weather"]]

C7_Witness ==
    /\ HasTable
    /\ csv.columns = <<"weather", "date">>
    /\ Len(csv.rows) = 3
    /\ pc = "done"
    /\ raised = NoExc
    /\ Len(df_processed.data) = 2
    /\ df_processed.data[1]["weather"] = 1

\* C8: de-duplication keeps exactly the first occurrence of every distinct
\* row (all columns compared), in the original order, and de-duplicating the
\* result again changes nothing.
C8_DropDuplicates ==
    (HasTable /\ pc \notin {"load", "drop_duplicates"}) =>
        /\ df.columns = csv.columns
        /\ Len(df.data) = Len(df.index)
        /\ {df.index[i] + 1 : i \in 1..Len(df.index)} = FirstPos
        /\ \A i \in 1..Len(df.index) : df.data[i] = csv.rows[df.index[i] + 1]
        /\ \A i, j \in 1..Len(df.index) : i < j => df.index[i] < df.index[j]
        /\ \A i, j \in 1..Len(df.data) : i # j => df.data[i] # df.data[j]
        /\ Range(df.data) = Range(csv.rows)
        /\ drop_duplicates(df) = df

C8_Witness ==
    /\ HasTable
    /\ pc = "required"
    /\ Len(csv.rows) = 3
    /\ csv.rows[1] = csv.rows[3]
    /\ csv.rows[1] # csv.rows[2]
    /\ df.index = <<0, 1>>

RECURSIVE SumOver(_, _)
SumOver(S, f) ==
    IF S = {} THEN 0
    ELSE LET a == CHOOSE b \in S : TRUE IN f[a] + SumOver(S \ {a}, f)

\* C9: before scaling, in every retained feature column a cell that is
\* missing after coercion (empty or not a numeral) holds the arithmetic mean
\* of the numerals of that column, a numeral keeps its value, no missing
\* marker is left, and every retained column has at least one numeral.
C9_MeanImputation ==
    (pc \in {"scale", "assemble"}) =>
        /\ Len(X_numeric.data) = Len(X.data)
        /\ Range(X_numeric.columns) \subseteq Range(X.columns)
        /\ \A c \in Range(X_numeric.columns) :
              LET rowsN == {j \in 1..Len(X.data) : IsNumeral(X.data[j][c])}
                  total == SumOver(rowsN, [j \in rowsN |-> Numeral[X.data[j][c]]])
              IN /\ rowsN # {}
                 /\ \A i \in 1..Len(X.data) :
                       LET v == X_numeric.data[i][c]
                       IN /\ ~isna(v)
                          /\ v.d > 0
                          /\ IF IsNumeral(X.data[i][c])
                             THEN v = [n |-> Numeral[X.data[i][c]], d |-> 1]
                             ELSE v.n * Cardinality(rowsN) = total * v.d

C9_Witness ==
    /\ pc = "scale"
    /\ Len(X.data) = 3
    /\ X.columns = <<"wind">>
    /\ X.data[1]["wind"] = "1"
    /\ X.data[2]["wind"] = "3"
    /\ X.data[3]["wind"] = ""
    /\ X_numeric.data[3]["wind"] = [n |-> 2, d |-> 1]

\* C10 (as claimed): with both required columns and at least one other
\* column, whatever the number of rows, preprocess_data does not take the
\* degenerate branch: it returns a table with at least one feature column or
\* fails with NoUsableFeatures.
C10_DegenerateOnlyWithoutFeatures ==
    (HasRequired /\ Len(csv.columns) > 2 /\ AfterPreprocess) =>
        /\ ~NoFeaturesWarned
        /\ IF Returned
           THEN Len(df_processed.columns) >= 2
           ELSE NoUsableFeatures

====
